---- MODULE Spec2Model ----
(***************************************************************************)
(* A model of dsd/np.py: the DNASeqList sequence set (construction,        *)
(* append/pop/shuffle, the filters), exhaustive enumeration of sequences,  *)
(* the nearest-neighbor energy table and the batched substring matchers.   *)
(*                                                                         *)
(* Conventions.                                                            *)
(*  - A Python string is a sequence of one-character strings, a code row   *)
(*    (1D ndarray) a sequence of integers 0..3, a 2D ndarray a sequence of *)
(*    rows.  The field DNASeqList.seqarr also records its number of        *)
(*    columns (shape[1]), which numpy keeps for a matrix with no rows.     *)
(*  - Python indices are 0-based, sequences here 1-based: the element the  *)
(*    code calls x[i] is x[i + 1] here.                                    *)
(*  - An Optional argument is <<>> for None and <<v>> for the value v.     *)
(*  - Energies are exact integers in units of 10^-6 kcal/mol and           *)
(*    temperatures are integers in units of 0.01 degree Celsius.           *)
(*  - A boolean mask used as an index selects the positions where it is    *)
(*    True, in row-major order (numpy's nonzero()).  The vectorized        *)
(*    matchers read counter[i1, idx] with a mask idx one column narrower   *)
(*    than the table: numpy up to 1.12 selects the positions of its True   *)
(*    entries, numpy from 1.13 on raises IndexError.  Both outcomes are    *)
(*    in the model (MaskOutcomes).                                         *)
(***************************************************************************)
EXTENDS Integers, Sequences, FiniteSets, TLC

VARIABLES
    seqarr,    \* DNASeqList.seqarr: [ncols |-> shape[1], rows |-> the rows]
    numseqs,   \* DNASeqList.numseqs
    seqlen,    \* DNASeqList.seqlen
    pc,        \* "new": no set constructed; "failed": the constructor raised;
               \* "idle": between calls on the set;
               \* "hamming_outer", "hamming_inner": inside filter_hamming;
               \* "call", "done": before and after a module-level function
    op,        \* name of the last operation called
    args,      \* arguments of the last call (a record)
    ret,       \* value returned by the last call (a record)
    err,       \* exception raised by the last call, "none" if it returned
    arr_keep,  \* local arr_keep of filter_hamming
    seq,       \* local seq of filter_hamming
    rng,       \* DNASeqList.rng: the name of the generator the set draws
               \* from, "none" while there is no set
    CACHE_WC,  \* the module's toggle CACHE_WC
    calculate_wc_energies_cache,       \* _calculate_wc_energies_cache: <<>>
                                       \* for None, else <<the array>>
    calculate_wc_energies_cache_hash   \* _calculate_wc_energies_cache_hash

\* the module's globals of the cache of calculate_wc_energies
cache_vars ==
    <<CACHE_WC, calculate_wc_energies_cache, calculate_wc_energies_cache_hash>>

vars == <<seqarr, numseqs, seqlen, pc, op, args, ret, err, arr_keep, seq, rng,
          cache_vars>>

-----------------------------------------------------------------------------
(* Bounds of the model *)

MaxEnumLen == 2      \* lengths 0..MaxEnumLen for exhaustive enumeration
MaxRows == 3         \* rows a set is grown to by append
MaxThreshold == 3    \* thresholds 0..MaxThreshold for filter_hamming
MaxMatchLen == 3     \* row lengths 1..MaxMatchLen for the matchers
MaxBatch == 2        \* rows of a batch handed to the batched matchers
MaxFilterLen == 3    \* seqlen 1..MaxFilterLen of the enumerated sets filtered
MaxEnergyLen == 3    \* row lengths 1..MaxEnergyLen for the energy functions
MaxEnergyRows == 2   \* rows of a matrix handed to the energy functions
MaxCacheRows == 2    \* rows 1..MaxCacheRows of a matrix of a cached energy call
MaxCacheLen == 2     \* its row length, 1..MaxCacheLen

-----------------------------------------------------------------------------
(* SymbolCodec *)

bits2base == <<"A", "C", "G", "T">>

base2bits == [b \in {"A", "C", "G", "T", "a", "c", "g", "t"} |->
                 CASE b \in {"A", "a"} -> 0
                   [] b \in {"C", "c"} -> 1
                   [] b \in {"G", "g"} -> 2
                   [] b \in {"T", "t"} -> 3]

Codes == 0..3

seq2arr(s) == [i \in 1..Len(s) |-> base2bits[s[i]]]

arr2seq(arr) == [i \in 1..Len(arr) |-> bits2base[arr[i] + 1]]

\* seqs2arr returns the rows; "ValueError" is reported by the callers below
seqs2arr_ok(seqs) == \A i \in 1..Len(seqs) : Len(seqs[i]) = Len(seqs[1])

seqs2arr(seqs) == [i \in 1..Len(seqs) |-> seq2arr(seqs[i])]

-----------------------------------------------------------------------------
(* Generic helpers: sets of sequences, numpy's repeat and tile *)

RECURSIVE Pow(_, _)
Pow(b, e) == IF e = 0 THEN 1 ELSE b * Pow(b, e - 1)

\* an ndarray holds its elements: the sequence f with every element computed
Array(f) == SubSeq(f, 1, Len(f))

\* all sequences of length n over S
SeqsOfLen(S, n) == [1..n -> S]

\* all sequences over S with length in lo..hi
SeqsUpTo(S, lo, hi) == UNION {SeqsOfLen(S, n) : n \in lo..hi}

\* the sequences over S without a repeated element
DistinctSeqs(S) ==
    {s \in SeqsUpTo(S, 0, Cardinality(S)) :
        \A i, j \in 1..Len(s) : i # j => s[i] # s[j]}

\* np.repeat(x, n): every element n times in a row
np_repeat(x, n) == Array([k \in 1..(Len(x) * n) |-> x[((k - 1) \div n) + 1]])

\* np.tile(x, n): the whole of x, n times
np_tile(x, n) == Array([k \in 1..(Len(x) * n) |-> x[((k - 1) % Len(x)) + 1]])

\* lexicographic order on equal-length integer rows
LexLess(r, s) ==
    \E i \in 1..Len(r) :
        /\ r[i] < s[i]
        /\ \A j \in 1..(i - 1) : r[j] = s[j]

-----------------------------------------------------------------------------
(* make_array_with_all_dna_seqs *)

make_array_error(length, bases) ==
    IF ~({bases[i] : i \in 1..Len(bases)} \subseteq {"A", "C", "G", "T"})
    THEN "ValueError"
    ELSE IF Len(bases) = 0 THEN "ValueError" ELSE "none"

\* column c (0-based) of the result: np.tile(np.repeat(bases, i), j) with
\* i = num_bases^(length-1-c) and j = num_bases^c
TileAllPowers(base_bits, i, j) == np_tile(np_repeat(base_bits, i), j)

make_array_column(base_bits, length, c) ==
    LET num_bases == Len(base_bits)
    IN  TileAllPowers(base_bits, Pow(num_bases, length - 1 - c), Pow(num_bases, c))

make_array_with_all_dna_seqs(length, bases) ==
    LET num_bases == Len(bases)
        num_seqs  == Pow(num_bases, length)
        base_bits == [i \in 1..num_bases |-> base2bits[bases[i]]]
    IN  [r \in 1..num_seqs |->
            [c \in 1..length |-> make_array_column(base_bits, length, c - 1)[r]]]

-----------------------------------------------------------------------------
(* Values shared by the specifications *)

NoArgs == [none |-> TRUE]
NoRet == [none |-> TRUE]
NoArr == [ncols |-> 0, rows |-> <<>>]

\* the globals of the cache when the module has been imported:
\* CACHE_WC = False, _calculate_wc_energies_cache = None,
\* _calculate_wc_energies_cache_hash = 0 (a hash is represented by the bytes
\* it was taken of, 0 by the empty bytes)
CacheAtImport ==
    /\ CACHE_WC = FALSE
    /\ calculate_wc_energies_cache = <<>>
    /\ calculate_wc_energies_cache_hash = <<>>

\* the receiver's fields, filter_hamming's locals and the globals of the
\* cache do not change
ObjUnchanged ==
    UNCHANGED <<seqarr, numseqs, seqlen, arr_keep, seq, rng, cache_vars>>

-----------------------------------------------------------------------------
(* Specification SpecEnum: exhaustive enumeration as a function of its     *)
(* arguments                                                               *)

EnumBases == DistinctSeqs({"A", "C", "G", "T"}) \cup {<<"A", "X">>}

InitEnum ==
    /\ seqarr = NoArr /\ numseqs = 0 /\ seqlen = 0
    /\ arr_keep = <<>> /\ seq = <<>> /\ rng = "none"
    /\ CacheAtImport
    /\ pc = "call"
    /\ op = "make_array_with_all_dna_seqs"
    /\ args \in [length : 0..MaxEnumLen, bases : EnumBases]
    /\ ret = NoRet
    /\ err = "none"

MakeArrayFails ==
    /\ pc = "call"
    /\ make_array_error(args.length, args.bases) # "none"
    /\ pc' = "done"
    /\ err' = make_array_error(args.length, args.bases)
    /\ UNCHANGED <<op, args, ret>>
    /\ ObjUnchanged

MakeArrayReturns ==
    /\ pc = "call"
    /\ make_array_error(args.length, args.bases) = "none"
    /\ pc' = "done"
    /\ ret' = [arr |-> make_array_with_all_dna_seqs(args.length, args.bases)]
    /\ UNCHANGED <<op, args, err>>
    /\ ObjUnchanged

NextEnum == MakeArrayFails \/ MakeArrayReturns

SpecEnum == InitEnum /\ [][NextEnum]_vars

\* the alphabet of a call, as the set of its codes
AlphabetCodes(bases) == {base2bits[bases[i]] : i \in 1..Len(bases)}

EnumReturned == pc = "done" /\ err = "none"

\* C7: for every non-empty alphabet that is a subset of {A,C,G,T}, however
\* the collection is ordered, and every length L, exhaustive construction
\* yields exactly k^L rows, pairwise distinct, in strictly increasing
\* lexicographic order of their codes.
C7_EnumSortedAnyOrder ==
    EnumReturned =>
        /\ Len(ret.arr) = Pow(Len(args.bases), args.length)
        /\ \A r, s \in 1..Len(ret.arr) : r # s => ret.arr[r] # ret.arr[s]
        /\ \A r \in 1..(Len(ret.arr) - 1) : LexLess(ret.arr[r], ret.arr[r + 1])

-----------------------------------------------------------------------------
(* EnergyModel.  _dH is in kcal/mol and _dS in cal/mol/K; dH10 and dS10 are *)
(* the table entries times 10, in the order AA, AC, AG, AT, CA, ... TT.     *)

dH10 == <<-76, -84, -78, -72, -85, -80, -106, -78,
          -82, -98, -80, -84, -72, -82, -85, -76>>

dS10 == <<-213, -224, -210, -204, -227, -199, -272, -210,
          -222, -244, -199, -224, -213, -222, -227, -213>>

\* 273.15, in units of 0.01 degree
KelvinOffset == 27315

\* energies = _dH - (temperature + 273.15) * _dS / 1000.0, in 10^-6 kcal/mol,
\* for temperature in 0.01 degree Celsius; a sequence indexed by key + 1
calculate_loop_energies(temperature, negate) ==
    LET energies == [k \in 1..16 |->
                        dH10[k] * 100000 - (temperature + KelvinOffset) * dS10[k]]
    IN  IF negate THEN [k \in 1..16 |-> 0 - energies[k]] ELSE energies

\* the key with the two codes exchanged
PairIndexSwapped(left, right) == right * 4 + left

\* the key of the ordered pair of codes: (left << 2) + right
PairIndex(left, right) == left * 4 + right

RECURSIVE SumSeq(_)
SumSeq(s) == IF Len(s) = 0 THEN 0 ELSE s[1] + SumSeq(Tail(s))

\* calculate_wc_energies with CACHE_WC = False: one energy per row
calculate_wc_energies(rows, temperature, negate) ==
    LET loop_energies == calculate_loop_energies(temperature, negate)
        pair_energies(row) ==
            [c \in 1..(Len(row) - 1) |->
                loop_energies[PairIndex(row[c], row[c + 1]) + 1]]
    IN  [r \in 1..Len(rows) |-> SumSeq(pair_energies(rows[r]))]

\* the complement of every symbol, the columns not reversed
WcArrNoReverse(rows) ==
    [r \in 1..Len(rows) |-> [c \in 1..Len(rows[r]) |-> 3 - rows[r][c]]]

\* wc_arr: (3 - seqarr)[:, ::-1]
wc_arr(rows) ==
    [r \in 1..Len(rows) |->
        [c \in 1..Len(rows[r]) |-> 3 - rows[r][Len(rows[r]) + 1 - c]]]

-----------------------------------------------------------------------------
(* numpy indexing helpers *)

\* the selected rows but the first of them
RECURSIVE MaskRowsAll(_, _)
MaskRowsAll(rows, mask) ==
    IF Len(rows) = 0 THEN <<>>
    ELSE IF mask[1] THEN <<rows[1]>> \o MaskRowsAll(Tail(rows), Tail(mask))
         ELSE MaskRowsAll(Tail(rows), Tail(mask))

MaskRowsDropFirst(rows, mask) ==
    IF Len(MaskRowsAll(rows, mask)) = 0 THEN <<>>
    ELSE Tail(MaskRowsAll(rows, mask))

\* rows[mask]: the rows whose mask entry is True, in order
RECURSIVE MaskRows(_, _)
MaskRows(rows, mask) ==
    IF Len(rows) = 0 THEN <<>>
    ELSE IF mask[1] THEN <<rows[1]>> \o MaskRows(Tail(rows), Tail(mask))
         ELSE MaskRows(Tail(rows), Tail(mask))

\* every negative index is out of bounds
ColumnOfNonNegative(idx, n) == IF 0 <= idx /\ idx < n THEN idx + 1 ELSE 0

\* the 1-based column a Python index selects among n columns, 0 if the index
\* is out of bounds (IndexError); a negative index counts from the end
ColumnOf(idx, n) ==
    IF 0 <= idx /\ idx < n THEN idx + 1
    ELSE IF 0 - n <= idx /\ idx < 0 THEN n + idx + 1
    ELSE 0

-----------------------------------------------------------------------------
(* DNASeqList filters.  Each filter has an operator naming the exception it *)
(* raises ("none" if it returns) and an operator giving the rows it keeps;  *)
(* arr is self.seqarr.                                                      *)

GCBits == {base2bits["C"], base2bits["G"]}
ATBits == {base2bits["A"], base2bits["T"]}

filter_energy_rows(arr, low, high, temperature) ==
    LET wcenergies   == calculate_wc_energies(arr.rows, temperature, FALSE)
        within_range == [r \in 1..Len(arr.rows) |->
                            low <= wcenergies[r] /\ wcenergies[r] <= high]
    IN  MaskRows(arr.rows, within_range)

\* columns 0, -1, 1, 2, -2, -3 are read
filter_end_gc_error(arr) ==
    IF \E idx \in {0, -1, 1, 2, -2, -3} : ColumnOf(idx, arr.ncols) = 0
    THEN "IndexError" ELSE "none"

\* only the two ends are tested
filter_end_gc_rows_ends(arr) ==
    LET n == arr.ncols
        good == [r \in 1..Len(arr.rows) |->
            /\ arr.rows[r][ColumnOf(0, n)] \in GCBits
            /\ arr.rows[r][ColumnOf(-1, n)] \in GCBits]
    IN  MaskRows(arr.rows, good)

filter_end_gc_rows(arr) ==
    LET n == arr.ncols
        good == [r \in 1..Len(arr.rows) |->
            LET row == arr.rows[r]
                left == row[ColumnOf(0, n)]
                right == row[ColumnOf(-1, n)]
                left_p1 == row[ColumnOf(1, n)]
                left_p2 == row[ColumnOf(2, n)]
                right_m1 == row[ColumnOf(-2, n)]
                right_m2 == row[ColumnOf(-3, n)]
            IN  /\ left \in GCBits
                /\ right \in GCBits
                /\ (left_p1 \in ATBits \/ left_p2 \in ATBits)
                /\ (right_m1 \in ATBits \/ right_m2 \in ATBits)]
    IN  MaskRows(arr.rows, good)

\* the six columns are read whatever gc_near_end is
filter_end_at_error_six(arr, gc_near_end) ==
    IF \E idx \in {0, -1, 1, 2, -2, -3} : ColumnOf(idx, arr.ncols) = 0
    THEN "IndexError" ELSE "none"

filter_end_at_error(arr, gc_near_end) ==
    LET read == IF gc_near_end THEN {0, -1, 1, 2, -2, -3} ELSE {0, -1}
    IN  IF \E idx \in read : ColumnOf(idx, arr.ncols) = 0
        THEN "IndexError" ELSE "none"

filter_end_at_rows(arr, gc_near_end) ==
    LET n == arr.ncols
        good == [r \in 1..Len(arr.rows) |->
            LET row == arr.rows[r]
                left == row[ColumnOf(0, n)]
                right == row[ColumnOf(-1, n)]
            IN  /\ left \in ATBits
                /\ right \in ATBits
                /\ gc_near_end =>
                     /\ (row[ColumnOf(1, n)] \in GCBits \/ row[ColumnOf(2, n)] \in GCBits)
                     /\ (row[ColumnOf(-2, n)] \in GCBits \/ row[ColumnOf(-3, n)] \in GCBits)]
    IN  MaskRows(arr.rows, good)

filter_base_nowhere_rows(arr, base) ==
    LET good == [r \in 1..Len(arr.rows) |->
                    \A c \in 1..Len(arr.rows[r]) : arr.rows[r][c] # base2bits[base]]
    IN  MaskRows(arr.rows, good)

filter_base_count_rows(arr, base, low, high) ==
    LET sumarr == [r \in 1..Len(arr.rows) |->
                    Cardinality({c \in 1..Len(arr.rows[r]) :
                                    arr.rows[r][c] = base2bits[base]})]
        good == [r \in 1..Len(arr.rows) |-> low <= sumarr[r] /\ sumarr[r] <= high]
    IN  MaskRows(arr.rows, good)

filter_base_at_pos_error(arr, pos) ==
    IF ColumnOf(pos, arr.ncols) = 0 THEN "IndexError" ELSE "none"

filter_base_at_pos_rows(arr, pos, base) ==
    LET good == [r \in 1..Len(arr.rows) |->
                    arr.rows[r][ColumnOf(pos, arr.ncols)] = base2bits[base]]
    IN  MaskRows(arr.rows, good)

-----------------------------------------------------------------------------
(* filter_substring and create_toeplitz *)

\* powers of 2 instead of 4
PowArrBase2(sublen) == [k \in 1..sublen |-> Pow(2, k - 1)]

\* powarr = [4 ** k for k in range(sublen)]
PowArr(sublen) == [k \in 1..sublen |-> Pow(4, k - 1)]

\* np.roll(row, shift): the entry at j moves to (j + shift) mod len(row)
np_roll(row, shift) ==
    [j \in 1..Len(row) |-> row[((j - 1 - shift) % Len(row)) + 1]]

\* rows = seqlen - (sublen - 1) rows of cols = seqlen entries; row i is
\* powarr followed by zeros, rolled by i
create_toeplitz(seqlen_, sublen) ==
    LET powarr == PowArr(sublen)
        nrows == seqlen_ - (sublen - 1)
        first == [c \in 1..seqlen_ |-> IF c <= sublen THEN powarr[c] ELSE 0]
    IN  [i \in 1..nrows |-> np_roll(first, i - 1)]

\* np.dot of two equal-length integer vectors
RECURSIVE Dot(_, _)
Dot(x, y) == IF Len(x) = 0 THEN 0 ELSE x[1] * y[1] + Dot(Tail(x), Tail(y))

\* the ValueError of mixed (or no) lengths; a substring longer than seqlen
\* makes create_toeplitz fail on a matrix of no or negatively many rows
filter_substring_error(seqlen_, subs) ==
    IF Cardinality({Len(subs[i]) : i \in 1..Len(subs)}) # 1 THEN "ValueError"
    ELSE IF seqlen_ - (Len(subs[1]) - 1) <= 0 THEN "ValueError"
    ELSE "none"

filter_substring_rows(arr, numseqs_, seqlen_, subs) ==
    LET sublen == Len(subs[1])
        subints == [i \in 1..Len(subs) |-> seq2arr(subs[i])]
        powarr == PowArr(sublen)
        subvals == [i \in 1..Len(subs) |-> Dot(subints[i], powarr)]
        toeplitz == create_toeplitz(seqlen_, sublen)
        \* convolution[i][r]: window i of row r
        convolution == [i \in 1..Len(toeplitz) |->
                           [r \in 1..Len(arr.rows) |-> Dot(toeplitz[i], arr.rows[r])]]
        passall == [r \in 1..numseqs_ |->
                       \A k \in 1..Len(subvals) :
                           \A i \in 1..Len(toeplitz) : convolution[i][r] # subvals[k]]
    IN  MaskRows(arr.rows, passall)

-----------------------------------------------------------------------------
(* DNASeqList.__init__ *)

\* a file as _read_from_file sees it: the number of fields of its first
\* line, the two integers the line starts with, and the sequences
Files == [f2 |-> [fields |-> 2, numseqs |-> 1, seqlen |-> 2, seqs |-> << <<"C", "T">> >>],
          f3 |-> [fields |-> 3, numseqs |-> 1, seqlen |-> 2, seqs |-> << <<"C", "T">> >>]]

\* a check of the neighbouring pairs only
AdjacentPairsCheck(length, seqs, seqarr_, filename) ==
    LET given == <<length, seqs, seqarr_, filename>>
    IN  IF \E i \in 1..3 : given[i] # <<>> /\ given[i + 1] # <<>>
        THEN "ValueError" ELSE "none"

\* for v1, v2 in it.combinations([length, seqs, seqarr, filename], 2)
ExactlyOneCheck(length, seqs, seqarr_, filename) ==
    LET given == <<length, seqs, seqarr_, filename>>
    IN  IF \E i, j \in 1..4 : i < j /\ given[i] # <<>> /\ given[j] # <<>>
        THEN "ValueError" ELSE "none"

\* the object a constructor call makes: [err, seqarr, numseqs, seqlen];
\* num_random_seqs is None and shuffle is False
DNASeqList_init(length, alphabet, seqs, seqarr_, filename) ==
    LET fail(e) == [err |-> e, seqarr |-> NoArr, numseqs |-> 0, seqlen |-> 0]
        made(rows, n, l) ==
            [err |-> "none", seqarr |-> [ncols |-> l, rows |-> rows],
             numseqs |-> n, seqlen |-> l]
    IN  IF ExactlyOneCheck(length, seqs, seqarr_, filename) # "none"
        THEN fail("ValueError")
        ELSE IF seqarr_ # <<>>
        THEN made(seqarr_[1].rows, Len(seqarr_[1].rows), seqarr_[1].ncols)
        ELSE IF seqs # <<>>
        THEN IF Len(seqs[1]) = 0 THEN fail("ValueError")
             ELSE IF ~seqs2arr_ok(seqs[1]) THEN fail("ValueError")
             ELSE made(seqs2arr(seqs[1]), Len(seqs[1]), Len(seqs[1][1]))
        ELSE IF filename # <<>>
        THEN LET f == Files[filename[1]]
             IN  IF f.fields # 3 THEN fail("ValueError")
                 ELSE made(seqs2arr(f.seqs), f.numseqs, f.seqlen)
        ELSE IF length # <<>>
        THEN IF make_array_error(length[1], alphabet) # "none" THEN fail("ValueError")
             ELSE LET rows == make_array_with_all_dna_seqs(length[1], alphabet)
                  IN  made(rows, Len(rows), length[1])
        ELSE fail("ValueError")

\* default_rng = np.random.default_rng(): the one generator the module makes
\* when it is imported
default_rng == "default_rng"

\* generators a caller makes and passes as rng
CallerRngs == {"rng1"}

\* the rng argument of a constructor call, <<>> if it is not passed
RngArgs == {<<>>} \cup {<<g>> : g \in CallerRngs}

\* self.rng = rng, where the parameter is declared rng = default_rng
init_rng(rng_) == IF rng_ = <<>> THEN default_rng ELSE rng_[1]

\* DNASeqList(seqarr=rows), as the filters call it: rng is not passed
NewFromSeqarr(rows, ncols) ==
    LET made == DNASeqList_init(<<>>, <<"A", "C", "G", "T">>, <<>>,
                                << [ncols |-> ncols, rows |-> rows] >>, <<>>)
    IN  [seqarr |-> made.seqarr, numseqs |-> made.numseqs, seqlen |-> made.seqlen,
         rng |-> init_rng(<<>>)]

-----------------------------------------------------------------------------
(* DNASeqList mutators, as functions of the fields they read *)

Last(s) == s[Len(s)]

\* np.delete(self.seqarr, -1, 0)
np_delete_last(arr) ==
    [ncols |-> arr.ncols, rows |-> SubSeq(arr.rows, 1, Len(arr.rows) - 1)]

\* pop and pop_array read self.seqarr[-1] first: IndexError on no rows
pop_error(arr) == IF Len(arr.rows) = 0 THEN "IndexError" ELSE "none"

\* the last row is returned and not deleted
PopArrayNoDelete(arr, n) ==
    [arr |-> Last(arr.rows), seqarr |-> arr, numseqs |-> n]

\* pop_array: the row returned and the fields after it
pop_array(arr, n) ==
    [arr |-> Last(arr.rows), seqarr |-> np_delete_last(arr), numseqs |-> n - 1]

\* np.vstack([self.seqarr, newarr]) needs a row of seqarr's width
append_arr_error(arr, newarr) ==
    IF Len(newarr) # arr.ncols THEN "ValueError" ELSE "none"

AppendArrNoCount(arr, n, newarr) ==
    [seqarr |-> [ncols |-> arr.ncols, rows |-> Append(arr.rows, newarr)],
     numseqs |-> n]

append_arr(arr, n, newarr) ==
    [seqarr |-> [ncols |-> arr.ncols, rows |-> Append(arr.rows, newarr)],
     numseqs |-> n + 1]

\* the orders rng.shuffle can leave n rows in
Perms(n) == {f \in [1..n -> 1..n] : \A i, j \in 1..n : i # j => f[i] # f[j]}

Shuffled(arr) ==
    {[ncols |-> arr.ncols, rows |-> [i \in 1..Len(arr.rows) |-> arr.rows[f[i]]]] :
        f \in Perms(Len(arr.rows))}

\* np.sum(np.bitwise_xor(row, seq) != 0): the xor of two codes is nonzero
\* exactly when they differ
HammingDistance(row, seq_) ==
    Cardinality({c \in 1..Len(row) : row[c] # seq_[c]})

RECURSIVE MinOf(_)
MinOf(S) ==
    LET x == CHOOSE y \in S : TRUE
    IN  IF S = {x} THEN x
        ELSE LET m == MinOf(S \ {x}) IN IF x < m THEN x ELSE m

\* the minimum taken one too small, as a test with <= would see it
HammingMinMinusOne(keep, seq_) ==
    MinOf({HammingDistance(keep[k], seq_) : k \in 1..Len(keep)}) - 1

\* hamming_min of filter_hamming: over the rows kept so far
hamming_min(keep, seq_) ==
    MinOf({HammingDistance(keep[r], seq_) : r \in 1..Len(keep)})

-----------------------------------------------------------------------------
(* Specification Spec: one DNASeqList, constructed and then changed by     *)
(* append, pop, shuffle and filter_hamming.  The strings and rows of the   *)
(* set are over PoolBases with a length in PoolLens.                       *)

PoolBases == <<"C", "T">>
PoolLens == {2}
PoolStrs == UNION {SeqsOfLen({"C", "T"}, n) : n \in PoolLens}
PoolRows == {seq2arr(s) : s \in PoolStrs}
\* the rows offered to append: those of the pool and two of another length
AppendStrs == PoolStrs \cup {<<"C">>, <<"C", "T", "C">>}
AppendRows == {seq2arr(s) : s \in AppendStrs}

LengthArgs == {<<>>} \cup {<<n>> : n \in PoolLens}
SeqsArgs == {<<>>} \cup {<< <<>> >>} \cup {<< <<s>> >> : s \in PoolStrs}
                \cup {<< <<s, <<"C", "T">> >> >> : s \in PoolStrs}
SeqarrArgs == {<<>>} \cup {<< [ncols |-> 2, rows |-> <<>>] >>}
                \cup {<< [ncols |-> Len(r), rows |-> <<r>>] >> : r \in PoolRows}
FilenameArgs == {<<>>, <<"f2">>, <<"f3">>}

Init ==
    /\ seqarr = NoArr /\ numseqs = 0 /\ seqlen = 0
    /\ arr_keep = <<>> /\ seq = <<>> /\ rng = "none"
    /\ CacheAtImport
    /\ pc = "new"
    /\ op = "none"
    /\ args = NoArgs
    /\ ret = NoRet
    /\ err = "none"

Returned(name, a, r) == op' = name /\ args' = a /\ ret' = r /\ err' = "none"
Raised(name, a, e) == op' = name /\ args' = a /\ ret' = NoRet /\ err' = e

Construct ==
    /\ pc = "new"
    /\ \E length \in LengthArgs, seqs \in SeqsArgs,
          seqarr_ \in SeqarrArgs, filename \in FilenameArgs, rng_ \in RngArgs :
        LET made == DNASeqList_init(length, PoolBases, seqs, seqarr_, filename)
            a == [length |-> length, seqs |-> seqs,
                  seqarr |-> seqarr_, filename |-> filename, rng |-> rng_]
        IN  IF made.err # "none"
            THEN /\ Raised("__init__", a, made.err)
                 /\ pc' = "failed"
                 /\ UNCHANGED <<seqarr, numseqs, seqlen, rng>>
            ELSE /\ Returned("__init__", a, NoRet)
                 /\ seqarr' = made.seqarr
                 /\ numseqs' = made.numseqs
                 /\ seqlen' = made.seqlen
                 /\ rng' = init_rng(rng_)
                 /\ pc' = "idle"
    /\ UNCHANGED <<arr_keep, seq, cache_vars>>

Pop ==
    /\ pc = "idle"
    /\ IF pop_error(seqarr) # "none"
       THEN /\ Raised("pop", NoArgs, pop_error(seqarr))
            /\ UNCHANGED <<seqarr, numseqs>>
       ELSE LET r == pop_array(seqarr, numseqs)
            IN  /\ Returned("pop", NoArgs, [seq_str |-> arr2seq(r.arr)])
                /\ seqarr' = r.seqarr
                /\ numseqs' = r.numseqs
    /\ UNCHANGED <<seqlen, rng, cache_vars, pc, arr_keep, seq>>

PopArray ==
    /\ pc = "idle"
    /\ IF pop_error(seqarr) # "none"
       THEN /\ Raised("pop_array", NoArgs, pop_error(seqarr))
            /\ UNCHANGED <<seqarr, numseqs>>
       ELSE LET r == pop_array(seqarr, numseqs)
            IN  /\ Returned("pop_array", NoArgs, [arr |-> r.arr])
                /\ seqarr' = r.seqarr
                /\ numseqs' = r.numseqs
    /\ UNCHANGED <<seqlen, rng, cache_vars, pc, arr_keep, seq>>

\* append_seq(newseq) is append_arr(seq2arr(newseq))
AppendSeq ==
    /\ pc = "idle"
    /\ Len(seqarr.rows) < MaxRows
    /\ \E newseq \in AppendStrs :
        LET newarr == seq2arr(newseq)
            a == [newseq |-> newseq]
        IN  IF append_arr_error(seqarr, newarr) # "none"
            THEN /\ Raised("append_seq", a, append_arr_error(seqarr, newarr))
                 /\ UNCHANGED <<seqarr, numseqs>>
            ELSE LET r == append_arr(seqarr, numseqs, newarr)
                 IN  /\ Returned("append_seq", a, NoRet)
                     /\ seqarr' = r.seqarr
                     /\ numseqs' = r.numseqs
    /\ UNCHANGED <<seqlen, rng, cache_vars, pc, arr_keep, seq>>

AppendArr ==
    /\ pc = "idle"
    /\ Len(seqarr.rows) < MaxRows
    /\ \E newarr \in AppendRows :
        LET a == [newarr |-> newarr]
        IN  IF append_arr_error(seqarr, newarr) # "none"
            THEN /\ Raised("append_arr", a, append_arr_error(seqarr, newarr))
                 /\ UNCHANGED <<seqarr, numseqs>>
            ELSE LET r == append_arr(seqarr, numseqs, newarr)
                 IN  /\ Returned("append_arr", a, NoRet)
                     /\ seqarr' = r.seqarr
                     /\ numseqs' = r.numseqs
    /\ UNCHANGED <<seqlen, rng, cache_vars, pc, arr_keep, seq>>

\* shuffle: enumerated for sets of at most MaxRows rows
Shuffle ==
    /\ pc = "idle"
    /\ Len(seqarr.rows) <= MaxRows
    /\ seqarr' \in Shuffled(seqarr)
    /\ Returned("shuffle", NoArgs, NoRet)
    /\ UNCHANGED <<numseqs, seqlen, rng, cache_vars, pc, arr_keep, seq>>

-----------------------------------------------------------------------------
(* filter_hamming, one action per step of its loops.  args records the     *)
(* threshold and the receiver's rows at the call.                          *)

\* seq = self.pop_array(); arr_keep = np.array([seq]); self.shuffle()
HammingStart ==
    /\ pc = "idle"
    /\ Len(seqarr.rows) <= MaxRows
    /\ \E threshold \in 0..MaxThreshold :
        LET a == [threshold |-> threshold, self |-> seqarr.rows]
        IN  IF pop_error(seqarr) # "none"
            THEN /\ Raised("filter_hamming", a, pop_error(seqarr))
                 /\ UNCHANGED <<seqarr, numseqs, pc, arr_keep, seq>>
            ELSE LET r == pop_array(seqarr, numseqs)
                 IN  /\ Returned("filter_hamming", a, NoRet)
                     /\ seq' = r.arr
                     /\ arr_keep' = <<r.arr>>
                     /\ seqarr' \in Shuffled(r.seqarr)
                     /\ numseqs' = r.numseqs
                     /\ pc' = "hamming_outer"
    /\ UNCHANGED <<seqlen, rng, cache_vars>>

\* while self.seqarr.shape[0] > 0: seq = self.pop_array()
HammingOuterPop ==
    /\ pc = "hamming_outer"
    /\ Len(seqarr.rows) > 0
    /\ LET r == pop_array(seqarr, numseqs)
       IN  /\ seq' = r.arr
           /\ seqarr' = r.seqarr
           /\ numseqs' = r.numseqs
    /\ pc' = "hamming_inner"
    /\ UNCHANGED <<seqlen, rng, cache_vars, op, args, ret, err, arr_keep>>

\* the inner loop's test and body: a row that is too close is dropped for
\* the next popped row while rows are left
HammingInnerPop ==
    /\ pc = "hamming_inner"
    /\ Len(seqarr.rows) > 0
    /\ hamming_min(arr_keep, seq) < args.threshold
    /\ LET r == pop_array(seqarr, numseqs)
       IN  /\ seq' = r.arr
           /\ seqarr' = r.seqarr
           /\ numseqs' = r.numseqs
    /\ UNCHANGED <<seqlen, rng, cache_vars, pc, op, args, ret, err, arr_keep>>

\* the inner loop ends, by its condition or by break:
\* arr_keep = np.vstack([arr_keep, seq])
HammingKeep ==
    /\ pc = "hamming_inner"
    /\ \/ Len(seqarr.rows) = 0
       \/ ~(hamming_min(arr_keep, seq) < args.threshold)
    /\ arr_keep' = Append(arr_keep, seq)
    /\ pc' = "hamming_outer"
    /\ UNCHANGED <<seqarr, numseqs, seqlen, rng, cache_vars, op, args, ret, err, seq>>

\* self.seqarr = arr_keep; self.numseqs = self.seqarr.shape[0]
HammingReturn ==
    /\ pc = "hamming_outer"
    /\ Len(seqarr.rows) = 0
    /\ seqarr' = [ncols |-> Len(arr_keep[1]), rows |-> arr_keep]
    /\ numseqs' = Len(arr_keep)
    /\ arr_keep' = <<>>
    /\ seq' = <<>>
    /\ pc' = "idle"
    /\ UNCHANGED <<seqlen, rng, cache_vars, op, args, ret, err>>

Next ==
    \/ Construct
    \/ Pop
    \/ PopArray
    \/ AppendSeq
    \/ AppendArr
    \/ Shuffle
    \/ HammingStart
    \/ HammingOuterPop
    \/ HammingInnerPop
    \/ HammingKeep
    \/ HammingReturn

Spec == Init /\ [][Next]_vars

-----------------------------------------------------------------------------
(* Claims checked under Spec *)

HammingReturned == pc = "idle" /\ op = "filter_hamming" /\ err = "none"

\* C1: after filter_hamming(threshold) returns on a non-empty set, every
\* pair of distinct retained rows has Hamming distance >= threshold.
C1_HammingPairwise ==
    HammingReturned =>
        \A i, j \in 1..Len(seqarr.rows) :
            i # j => HammingDistance(seqarr.rows[i], seqarr.rows[j]) >= args.threshold

FieldsConsistent ==
    /\ numseqs = Len(seqarr.rows)
    /\ seqarr.ncols = seqlen
    /\ \A r \in 1..Len(seqarr.rows) : Len(seqarr.rows[r]) = seqlen

\* C4: after every call on a constructed set, also one that raised, numseqs
\* is the number of rows of seqarr and every row has length seqlen; seqlen
\* never changes once the set is constructed.
C4_FieldsConsistent ==
    [][/\ pc' = "idle" => FieldsConsistent'
       /\ pc # "new" => seqlen' = seqlen]_vars

\* an append of a row of the wrong length fails on a set emptied by pops
C4_Witness ==
    /\ pc = "idle"
    /\ op = "append_arr"
    /\ err = "ValueError"
    /\ numseqs = 0
    /\ seqlen = 2

\* the arguments of the four sources that a constructor call supplied
Supplied == {k \in {"length", "seqs", "seqarr", "filename"} : args[k] # <<>>}

-----------------------------------------------------------------------------
(* Specification SpecFilter: one call of a value-returning filter on a set. *)
(* The set is DNASeqList(length=L) for L in 1..MaxFilterLen, which holds    *)
(* every row of that length, or one of FilterSeqLists, which are not       *)
(* sorted: two with repeated rows, one of rows of length 6.                 *)

AllBases == <<"A", "C", "G", "T">>
BaseSet == {"A", "C", "G", "T"}

FilterSeqLists ==
    { << <<"G", "A", "C">>, <<"T", "T", "T">>, <<"G", "A", "C">>,
         <<"C", "T", "G">>, <<"A", "G", "A">> >>,
      << <<"T", "G">>, <<"C", "A">>, <<"T", "G">> >>,
      << <<"C", "A", "T", "G", "G", "G">>, <<"G", "C", "C", "T", "A", "C">>,
         <<"G", "C", "A", "T", "T", "C">>, <<"A", "C", "A", "T", "T", "C">>,
         <<"C", "T", "G", "G", "A", "G">>, <<"G", "A", "T", "T", "C", "A">> >> }

FilterSets ==
    {DNASeqList_init(<<n>>, AllBases, <<>>, <<>>, <<>>) : n \in 1..MaxFilterLen}
    \cup {DNASeqList_init(<<>>, AllBases, <<l>>, <<>>, <<>>) : l \in FilterSeqLists}

InitFilter ==
    /\ \E made \in FilterSets :
        /\ seqarr = made.seqarr
        /\ numseqs = made.numseqs
        /\ seqlen = made.seqlen
    /\ rng \in {init_rng(rng_) : rng_ \in RngArgs}
    /\ CacheAtImport
    /\ arr_keep = <<>> /\ seq = <<>>
    /\ pc = "call"
    /\ op = "__init__"
    /\ args = NoArgs
    /\ ret = NoRet
    /\ err = "none"

ValueFilters == {"filter_energy", "filter_substring", "filter_base_count",
                 "filter_base_at_pos", "filter_base_nowhere",
                 "filter_end_gc", "filter_end_at"}

\* a filter that stores the rows it selected in its receiver, as
\* filter_hamming does
FilterInPlace(name, a, e, rows) ==
    /\ pc = "call"
    /\ pc' = "done"
    /\ IF e # "none"
       THEN Raised(name, a, e) /\ UNCHANGED <<seqarr, numseqs>>
       ELSE /\ Returned(name, a, [set |-> NewFromSeqarr(rows, seqarr.ncols)])
            /\ seqarr' = [ncols |-> seqarr.ncols, rows |-> rows]
            /\ numseqs' = Len(rows)
    /\ UNCHANGED <<seqlen, rng, cache_vars, arr_keep, seq>>

\* a filter call: it raises e, or returns DNASeqList(seqarr=rows); no
\* filter assigns a field of self
FilterOutcome(name, a, e, rows) ==
    /\ pc = "call"
    /\ pc' = "done"
    /\ IF e # "none" THEN Raised(name, a, e)
       ELSE Returned(name, a, [set |-> NewFromSeqarr(rows, seqarr.ncols)])
    /\ UNCHANGED <<seqarr, numseqs, seqlen, rng, cache_vars, arr_keep, seq>>

EnergyBounds == {-4000000, -3000000, -2000000, -1000000, 0}
Temperatures == {2500, 3700}

FilterEnergy ==
    \E low \in EnergyBounds, high \in EnergyBounds, temperature \in Temperatures :
        FilterOutcome("filter_energy",
            [low |-> low, high |-> high, temperature |-> temperature],
            "none", filter_energy_rows(seqarr, low, high, temperature))

FilterEndGC ==
    FilterOutcome("filter_end_gc", NoArgs,
        filter_end_gc_error(seqarr), filter_end_gc_rows(seqarr))

FilterEndAT ==
    \E gc_near_end \in BOOLEAN :
        FilterOutcome("filter_end_at", [gc_near_end |-> gc_near_end],
            filter_end_at_error(seqarr, gc_near_end),
            filter_end_at_rows(seqarr, gc_near_end))

FilterBaseNowhere ==
    \E base \in BaseSet :
        FilterOutcome("filter_base_nowhere", [base |-> base],
            "none", filter_base_nowhere_rows(seqarr, base))

FilterBaseCount ==
    \E base \in BaseSet, low \in 0..MaxFilterLen, high \in 0..MaxFilterLen :
        FilterOutcome("filter_base_count",
            [base |-> base, low |-> low, high |-> high],
            "none", filter_base_count_rows(seqarr, base, low, high))

FilterBaseAtPos ==
    \E pos \in (0 - MaxFilterLen - 1)..MaxFilterLen, base \in BaseSet :
        FilterOutcome("filter_base_at_pos", [pos |-> pos, base |-> base],
            filter_base_at_pos_error(seqarr, pos),
            filter_base_at_pos_rows(seqarr, pos, base))

\* one forbidden string of any length, two over G and C of one length (as
\* filter_seqs_by_g_quad_c_quad passes), two of different lengths, none
SubsArgs ==
    {<<s>> : s \in SeqsUpTo(BaseSet, 1, MaxFilterLen)}
    \cup UNION {{<<s, t>> : s, t \in SeqsOfLen({"G", "C"}, k)} : k \in 1..MaxFilterLen}
    \cup {<< <<"G">>, <<"C", "C">> >>, <<>>}

FilterSubstring ==
    \E subs \in SubsArgs :
        FilterOutcome("filter_substring", [subs |-> subs],
            filter_substring_error(seqlen, subs),
            filter_substring_rows(seqarr, numseqs, seqlen, subs))

NextFilter ==
    \/ FilterEnergy
    \/ FilterEndGC
    \/ FilterEndAT
    \/ FilterBaseNowhere
    \/ FilterBaseCount
    \/ FilterBaseAtPos
    \/ FilterSubstring

SpecFilter == InitFilter /\ [][NextFilter]_vars

-----------------------------------------------------------------------------
(* Claims checked under SpecFilter *)

\* C5: each of filter_energy, filter_substring, filter_base_count,
\* filter_base_at_pos, filter_base_nowhere, filter_end_gc and filter_end_at
\* returns a new set and leaves the receiver's rows, row order, numseqs and
\* seqlen unchanged (filter_hamming, which assigns self.seqarr and
\* self.numseqs, is the only filter that changes its receiver).
C5_FiltersLeaveReceiver ==
    [][(pc' = "done" /\ op' \in ValueFilters) =>
            /\ seqarr' = seqarr
            /\ numseqs' = numseqs
            /\ seqlen' = seqlen
            /\ err' = "none" =>
                 /\ ret'.set.numseqs = Len(ret'.set.seqarr.rows)
                 /\ ret'.set.seqlen = seqlen]_vars

\* a filter returned fewer rows than its receiver, which still holds all
\* 4^3 rows
C5_Witness ==
    /\ pc = "done"
    /\ op = "filter_base_nowhere"
    /\ err = "none"
    /\ ret.set.numseqs = 27
    /\ numseqs = 64
    /\ Len(seqarr.rows) = 64

\* sub occurs in str as a contiguous substring
Contains(str, sub) ==
    \E i \in 1..(Len(str) - Len(sub) + 1) :
        SubSeq(str, i, i + Len(sub) - 1) = sub

\* the rows none of subs occurs in, by string containment
RECURSIVE NaiveKeep(_, _)
NaiveKeep(rows, subs) ==
    IF Len(rows) = 0 THEN <<>>
    ELSE IF \E k \in 1..Len(subs) : Contains(arr2seq(rows[1]), subs[k])
         THEN NaiveKeep(Tail(rows), subs)
         ELSE <<rows[1]>> \o NaiveKeep(Tail(rows), subs)

\* subs is a non-empty list of strings of one common length k <= seqlen
SubsInScope ==
    /\ Len(args.subs) > 0
    /\ \A k \in 1..Len(args.subs) : Len(args.subs[k]) = Len(args.subs[1])
    /\ Len(args.subs[1]) <= seqlen

\* C8: for a non-empty list subs of forbidden substrings of one common
\* length k <= seqlen, filter_substring(subs) keeps a row if and only if
\* none of the strings of subs occurs in it as a contiguous substring, and
\* the value of a window under the Toeplitz matrix equals the value of a
\* forbidden substring exactly when the window is that substring.
C8_SubstringAgreesWithNaive ==
    (pc = "done" /\ op = "filter_substring" /\ SubsInScope) =>
        /\ err = "none"
        /\ ret.set.seqarr.rows = NaiveKeep(seqarr.rows, args.subs)
        /\ LET k == Len(args.subs[1])
               toeplitz == create_toeplitz(seqlen, k)
           IN  \A r \in 1..Len(seqarr.rows), i \in 1..Len(toeplitz),
                  j \in 1..Len(args.subs) :
                   (Dot(toeplitz[i], seqarr.rows[r])
                        = Dot(seq2arr(args.subs[j]), PowArr(k)))
                   <=> (SubSeq(seqarr.rows[r], i, i + k - 1) = seq2arr(args.subs[j]))

\* two forbidden substrings of length 2 on the set of all rows of length 3:
\* some rows are rejected and some are kept
C8_Witness ==
    /\ pc = "done"
    /\ op = "filter_substring"
    /\ err = "none"
    /\ args.subs = << <<"G", "C">>, <<"C", "G">> >>
    /\ numseqs = 64
    /\ ret.set.numseqs = 50

-----------------------------------------------------------------------------
(* SubstringMatcher: numpy helpers.  A table counter has len(a1) + 1 rows   *)
(* of len(a2) + 1 cells; counter[i][j] of the code is counter[i+1][j+1].    *)

Zeros(n) == Array([j \in 1..n |-> 0])

\* the positions where a 1D mask is True, ascending
RECURSIVE NonzeroFrom(_, _)
NonzeroFrom(mask, j) ==
    IF j > Len(mask) THEN <<>>
    ELSE IF mask[j] THEN <<j>> \o NonzeroFrom(mask, j + 1)
         ELSE NonzeroFrom(mask, j + 1)

Nonzero(mask) == NonzeroFrom(mask, 1)

\* the positions <<p, j>> where a 2D mask is True, in row-major order
RECURSIVE Nonzero2From(_, _)
Nonzero2From(mask, p) ==
    IF p > Len(mask) THEN <<>>
    ELSE LET js == Nonzero(mask[p])
         IN  [k \in 1..Len(js) |-> <<p, js[k]>>] \o Nonzero2From(mask, p + 1)

Nonzero2(mask) == Nonzero2From(mask, 1)

\* x[mask] for a 1D x and x[mask] for a 2D x: the selected values in order
Take(x, positions) == Array([k \in 1..Len(positions) |-> x[positions[k]]])
Take2(x, positions) ==
    Array([k \in 1..Len(positions) |-> x[positions[k][1]][positions[k][2]]])

\* x[mask] = values: the k-th selected position receives the k-th value
Put(x, positions, values) ==
    Array([j \in 1..Len(x) |->
        IF \E k \in 1..Len(positions) : positions[k] = j
        THEN values[CHOOSE k \in 1..Len(positions) : positions[k] = j]
        ELSE x[j]])

Put2(x, positions, values) ==
    Array([p \in 1..Len(x) |->
        Array([j \in 1..Len(x[p]) |->
            IF \E k \in 1..Len(positions) : positions[k] = <<p, j>>
            THEN values[CHOOSE k \in 1..Len(positions) : positions[k] = <<p, j>>]
            ELSE x[p][j]])])

PlusOne(values) == Array([k \in 1..Len(values) |-> values[k] + 1])

\* the last position of the maximum, 0-based
ArgmaxLast(flat) ==
    (CHOOSE k \in 1..Len(flat) :
        /\ \A m \in 1..Len(flat) : flat[m] <= flat[k]
        /\ \A m \in (k + 1)..Len(flat) : flat[m] < flat[k]) - 1

\* np.argmax of a 1D array: the first position of the maximum, 0-based
Argmax(flat) ==
    (CHOOSE k \in 1..Len(flat) :
        /\ \A m \in 1..Len(flat) : flat[m] <= flat[k]
        /\ \A m \in 1..(k - 1) : flat[m] < flat[k]) - 1

\* the rows of a table one after the other (reshape of a C-ordered table)
RECURSIVE Flatten(_)
Flatten(table) ==
    IF Len(table) = 0 THEN <<>> ELSE table[1] \o Flatten(Tail(table))

\* np.unravel_index(k, (nrows, ncols)) for a 0-based k
Unravel(k, ncols) == <<k \div ncols, k % ncols>>

-----------------------------------------------------------------------------
(* longest_common_substring *)

\* the vectorized loop: the table rows 0..i1 after i1 iterations
RECURSIVE CounterVectorized(_, _, _)
CounterVectorized(a1, a2, i1) ==
    IF i1 = 0 THEN <<Zeros(Len(a2) + 1)>>
    ELSE LET prev == CounterVectorized(a1, a2, i1 - 1)
             idx == [j \in 1..Len(a2) |-> a2[j] = a1[i1]]
             idx_shifted == <<FALSE>> \o idx
             row == Put(Zeros(Len(a2) + 1), Nonzero(idx_shifted),
                        PlusOne(Take(prev[i1], Nonzero(idx))))
         IN  Append(prev, row)

\* the nested loops of the reference, after the first k cells in the order
\* i1 outer, i2 inner: [counter, a1idx, a2idx, len]
RECURSIVE NaiveScan(_, _, _)
NaiveScan(a1, a2, k) ==
    IF k = 0
    THEN [counter |-> [i \in 1..(Len(a1) + 1) |-> Zeros(Len(a2) + 1)],
          a1idx |-> -1, a2idx |-> -1, len |-> 0]
    ELSE LET st == NaiveScan(a1, a2, k - 1)
             i1 == (k - 1) \div Len(a2)
             i2 == (k - 1) % Len(a2)
             c == st.counter[i1 + 1][i2 + 1] + 1
         IN  IF a1[i1 + 1] # a2[i2 + 1] THEN st
             ELSE [counter |-> [st.counter EXCEPT ![i1 + 2][i2 + 2] = c],
                   a1idx |-> IF c > st.len THEN i1 + 1 - c ELSE st.a1idx,
                   a2idx |-> IF c > st.len THEN i2 + 1 - c ELSE st.a2idx,
                   len |-> IF c > st.len THEN c ELSE st.len]

\* the result triple <<a1idx_longest, a2idx_longest, len_longest>>
longest_common_substring(a1, a2, vectorized) ==
    IF vectorized
    THEN LET counter == CounterVectorized(a1, a2, Len(a1))
             idx_longest == Unravel(Argmax(Flatten(counter)), Len(a2) + 1)
             len_longest == counter[idx_longest[1] + 1][idx_longest[2] + 1]
         IN  IF idx_longest[1] > 0
             THEN <<idx_longest[1] - len_longest, idx_longest[2] - len_longest,
                    len_longest>>
             ELSE <<-1, -1, 0>>
    ELSE LET st == NaiveScan(a1, a2, Len(a1) * Len(a2))
         IN  <<st.a1idx, st.a2idx, st.len>>

-----------------------------------------------------------------------------
(* The batched matchers.  A 3D table is a sequence of planes, one per value *)
(* of the first axis; plane[p][j] is the cell of pair p.                    *)

ZeroPlane(numpairs, width) == Array([p \in 1..numpairs |-> Zeros(width)])

\* counter[i1 + 1, idx_shifted] = counter[i1, idx] + 1
NextCounterPlane(prev_plane, idx, idx_shifted) ==
    Put2(ZeroPlane(Len(prev_plane), Len(prev_plane[1])), Nonzero2(idx_shifted),
         PlusOne(Take2(prev_plane, Nonzero2(idx))))

\* counter of _longest_common_substrings_pairs after n iterations
RECURSIVE PairsCounter(_, _, _)
PairsCounter(a1s, a2s, n) ==
    IF n = 0 THEN <<ZeroPlane(Len(a1s), Len(a2s[1]) + 1)>>
    ELSE LET prev == PairsCounter(a1s, a2s, n - 1)
             idx == [p \in 1..Len(a1s) |->
                        [j \in 1..Len(a2s[p]) |-> a2s[p][j] = a1s[p][n]]]
             idx_shifted == [p \in 1..Len(a1s) |-> <<FALSE>> \o idx[p]]
         IN  Append(prev, NextCounterPlane(prev[n], idx, idx_shifted))

\* swapaxes(0, 1) and reshape: the table of pair p, row after row
FlatOfPair(planes, p) == Flatten(Array([i \in 1..Len(planes) |-> planes[i][p]]))

\* argmax of every pair's flattened table and the triple read off it
LongestOfCounter(counter, numpairs, len_a2) ==
    LET counter_flat == [p \in 1..numpairs |-> FlatOfPair(counter, p)]
        idx_longest_raveled == [p \in 1..numpairs |-> Argmax(counter_flat[p])]
        len_longest == [p \in 1..numpairs |->
                            counter_flat[p][idx_longest_raveled[p] + 1]]
        idx_longest == [p \in 1..numpairs |->
                            Unravel(idx_longest_raveled[p], len_a2 + 1)]
    IN  [a1idx |-> [p \in 1..numpairs |-> idx_longest[p][1] - len_longest[p]],
         a2idx |-> [p \in 1..numpairs |-> idx_longest[p][2] - len_longest[p]],
         len |-> len_longest]

longest_common_substrings_pairs(a1s, a2s) ==
    LongestOfCounter(PairsCounter(a1s, a2s, Len(a1s[1])), Len(a1s), Len(a2s[1]))

\* the table filled without the shift by one column: the mask is padded at
\* its end instead of at its start
RECURSIVE SingleCounterUnshifted(_, _, _)
SingleCounterUnshifted(a1, a2s, n) ==
    IF n = 0 THEN <<ZeroPlane(Len(a2s), Len(a2s[1]) + 1)>>
    ELSE LET prev == SingleCounterUnshifted(a1, a2s, n - 1)
             idx == [p \in 1..Len(a2s) |->
                        [j \in 1..Len(a2s[p]) |-> a2s[p][j] = a1[n]]]
             idx_padded == [p \in 1..Len(a2s) |-> idx[p] \o <<FALSE>>]
         IN  Append(prev, NextCounterPlane(prev[n], idx, idx_padded))

\* counter of longest_common_substrings_singlea1 after n iterations
RECURSIVE SingleCounter(_, _, _)
SingleCounter(a1, a2s, n) ==
    IF n = 0 THEN <<ZeroPlane(Len(a2s), Len(a2s[1]) + 1)>>
    ELSE LET prev == SingleCounter(a1, a2s, n - 1)
             idx == [p \in 1..Len(a2s) |->
                        [j \in 1..Len(a2s[p]) |-> a2s[p][j] = a1[n]]]
             \* np.insert(idx, 0, zeros, axis=1)
             idx_shifted == [p \in 1..Len(a2s) |-> <<FALSE>> \o idx[p]]
         IN  Append(prev, NextCounterPlane(prev[n], idx, idx_shifted))

longest_common_substrings_singlea1(a1, a2s) ==
    LongestOfCounter(SingleCounter(a1, a2s, Len(a1)), Len(a2s), Len(a2s[1]))

\* the replication with repeat and tile exchanged
ProductPairsSwapped(a1s, a2s) ==
    [a1s_cp |-> np_tile(a1s, Len(a2s)), a2s_cp |-> np_repeat(a2s, Len(a1s))]

\* a1s_cp = np.repeat(a1s, numa2s, axis=0); a2s_cp = np.tile(a2s, (numa1s, 1))
ProductPairs(a1s, a2s) ==
    [a1s_cp |-> np_repeat(a1s, Len(a2s)), a2s_cp |-> np_tile(a2s, Len(a1s))]

\* x.reshape(numa1s, numa2s)
Reshape(x, numa1s, numa2s) ==
    [i \in 1..numa1s |-> [j \in 1..numa2s |-> x[(i - 1) * numa2s + j]]]

longest_common_substrings_product(a1s, a2s) ==
    LET cp == ProductPairs(a1s, a2s)
        r == longest_common_substrings_pairs(cp.a1s_cp, cp.a2s_cp)
    IN  [a1idx |-> Reshape(r.a1idx, Len(a1s), Len(a2s)),
         a2idx |-> Reshape(r.a2idx, Len(a1s), Len(a2s)),
         len |-> Reshape(r.len, Len(a1s), Len(a2s))]

-----------------------------------------------------------------------------
(* The energy-weighted matcher *)

\* the elementwise or of two masks
OrMask(x, y) ==
    Array([p \in 1..Len(x) |-> Array([j \in 1..Len(x[p]) |-> x[p][j] \/ y[p][j]])])

AndMask(x, y) ==
    Array([p \in 1..Len(x) |-> Array([j \in 1..Len(x[p]) |-> x[p][j] /\ y[p][j]])])

\* counter, energies and prev_match_shifted_idxs of
\* _strongest_common_substrings_all_pairs_return_energies_and_counter
\* after n iterations
RECURSIVE StrongestTables(_, _, _, _)
StrongestTables(a1s, a2s, temperature, n) ==
    LET numpairs == Len(a1s)
        len_a2 == Len(a2s[1])
        loop_energies == calculate_loop_energies(temperature, FALSE)
    IN
    IF n = 0
    THEN [counter |-> <<ZeroPlane(numpairs, len_a2 + 1)>>,
          energies |-> <<ZeroPlane(numpairs, len_a2 + 1)>>,
          prev_match_shifted_idxs |-> <<>>]
    ELSE LET st == StrongestTables(a1s, a2s, temperature, n - 1)
             match_idxs == [p \in 1..numpairs |->
                               [j \in 1..len_a2 |-> a2s[p][j] = a1s[p][n]]]
             match_shifted_idxs == [p \in 1..numpairs |-> <<FALSE>> \o match_idxs[p]]
             counter_plane ==
                 NextCounterPlane(st.counter[n], match_idxs, match_shifted_idxs)
             \* the part under "if i1 > 0"
             loops == [p \in 1..numpairs |-> PairIndex(a1s[p][n - 1], a1s[p][n])]
             latest_energies_rp ==
                 [p \in 1..numpairs |-> [j \in 1..len_a2 |-> loop_energies[loops[p] + 1]]]
             match_idxs_false_at_end ==
                 [p \in 1..numpairs |-> match_idxs[p] \o <<FALSE>>]
             both_match_idxs ==
                 AndMask(match_idxs_false_at_end, st.prev_match_shifted_idxs)
             prev_match_shifted_shifted_idxs ==
                 [p \in 1..numpairs |->
                     SubSeq(<<FALSE>> \o st.prev_match_shifted_idxs[p], 1, len_a2 + 1)]
             both_match_shifted_idxs ==
                 AndMask(match_shifted_idxs, prev_match_shifted_shifted_idxs)
             picked == Nonzero2(both_match_idxs)
             sums == [k \in 1..Len(picked) |->
                         Take2(st.energies[n], picked)[k]
                             + Take2(latest_energies_rp, picked)[k]]
             energies_plane ==
                 IF n - 1 > 0
                 THEN Put2(ZeroPlane(numpairs, len_a2 + 1),
                           Nonzero2(both_match_shifted_idxs), sums)
                 ELSE ZeroPlane(numpairs, len_a2 + 1)
         IN  [counter |-> Append(st.counter, counter_plane),
              energies |-> Append(st.energies, energies_plane),
              prev_match_shifted_idxs |-> match_shifted_idxs]

\* _strongest_common_substrings_all_pairs
strongest_common_substrings_all_pairs(a1s, a2s, temperature) ==
    LET numpairs == Len(a1s)
        len_a2 == Len(a2s[1])
        t == StrongestTables(a1s, a2s, temperature, Len(a1s[1]))
        counter_flat == [p \in 1..numpairs |-> FlatOfPair(t.counter, p)]
        energies_flat == [p \in 1..numpairs |-> FlatOfPair(t.energies, p)]
        idx_strongest_raveled == [p \in 1..numpairs |-> Argmax(energies_flat[p])]
        len_strongest == [p \in 1..numpairs |->
                             counter_flat[p][idx_strongest_raveled[p] + 1]]
        energy_strongest == [p \in 1..numpairs |->
                                energies_flat[p][idx_strongest_raveled[p] + 1]]
        idx_strongest == [p \in 1..numpairs |->
                             Unravel(idx_strongest_raveled[p], len_a2 + 1)]
    IN  [a1idx |-> [p \in 1..numpairs |-> idx_strongest[p][1] - len_strongest[p]],
         a2idx |-> [p \in 1..numpairs |-> idx_strongest[p][2] - len_strongest[p]],
         len |-> len_strongest,
         energy |-> energy_strongest]

strongest_common_substrings_all_pairs_string(seqs1, seqs2, temperature) ==
    strongest_common_substrings_all_pairs(seqs2arr(seqs1), wc_arr(seqs2arr(seqs2)),
                                          temperature)

-----------------------------------------------------------------------------
(* Specification SpecMatch: one call of a matcher on two batches.  A batch  *)
(* is MaxBatch consecutive rows (cyclically) of the set of all rows of one  *)
(* length in 1..MaxMatchLen, so every pair of rows occurs as the first rows *)
(* of two batches and as a pair inside them.                                *)

Window(rows, start, size) ==
    [k \in 1..size |-> rows[((start + k - 2) % Len(rows)) + 1]]

MatchBatches ==
    UNION {{Window(make_array_with_all_dna_seqs(n, AllBases), start, MaxBatch) :
                start \in 1..Pow(4, n)} : n \in 1..MaxMatchLen}

\* 37 and 100 degrees Celsius
MatchTemperatures == {3700, 10000}

InitMatch ==
    /\ seqarr = NoArr /\ numseqs = 0 /\ seqlen = 0
    /\ arr_keep = <<>> /\ seq = <<>> /\ rng = "none"
    /\ CacheAtImport
    /\ pc = "call"
    /\ op = "none"
    /\ args \in [a1s : MatchBatches, a2s : MatchBatches]
    /\ ret = NoRet
    /\ err = "none"

\* what indexing with a mask narrower than the indexed axis does: "selects"
\* the positions of its True entries, or raises "IndexError"
MaskOutcomes == {"selects", "IndexError"}

\* a call of a function of the two batches that returns r, or that raises
\* in the first iteration of its loop over the len_a1 columns of a1
MatchCall(name, a, r, len_a1, mask) ==
    /\ pc = "call"
    /\ pc' = "done"
    /\ IF mask = "IndexError" /\ len_a1 > 0
       THEN Raised(name, a, "IndexError")
       ELSE Returned(name, a, r)
    /\ ObjUnchanged

\* longest_common_substring on the first rows of the batches
CallLongestCommonSubstring ==
    \E vectorized \in BOOLEAN, mask \in MaskOutcomes :
        MatchCall("longest_common_substring",
            [a1s |-> args.a1s, a2s |-> args.a2s, vectorized |-> vectorized],
            [triple |-> longest_common_substring(args.a1s[1], args.a2s[1], vectorized)],
            \* the nested loops of vectorized=False use no mask
            IF vectorized THEN Len(args.a1s[1]) ELSE 0, mask)

\* longest_common_substrings_singlea1 on the first row of a1s and all of a2s
CallSingleA1 ==
    \E mask \in MaskOutcomes :
        MatchCall("longest_common_substrings_singlea1", args,
            longest_common_substrings_singlea1(args.a1s[1], args.a2s),
            Len(args.a1s[1]), mask)

CallProduct ==
    \E mask \in MaskOutcomes :
        MatchCall("longest_common_substrings_product", args,
            longest_common_substrings_product(args.a1s, args.a2s),
            Len(args.a1s[1]), mask)

\* strongest_common_substrings_all_pairs_string on the strings of the rows
CallStrongest ==
    \E temperature \in MatchTemperatures, mask \in MaskOutcomes :
        MatchCall("strongest_common_substrings_all_pairs_string",
            [a1s |-> args.a1s, a2s |-> args.a2s, temperature |-> temperature],
            strongest_common_substrings_all_pairs_string(
                [p \in 1..Len(args.a1s) |-> arr2seq(args.a1s[p])],
                [p \in 1..Len(args.a2s) |-> arr2seq(args.a2s[p])],
                temperature),
            Len(args.a1s[1]), mask)

NextMatch ==
    \/ CallLongestCommonSubstring
    \/ CallSingleA1
    \/ CallProduct
    \/ CallStrongest

SpecMatch == InitMatch /\ [][NextMatch]_vars

-----------------------------------------------------------------------------
(* Properties of the matchers, under SpecMatch *)

\* the match-length table by its recurrence: the length of the longest common
\* suffix of a[1..i] and b[1..j]
RECURSIVE Cell(_, _, _, _)
Cell(a, b, i, j) ==
    IF i = 0 \/ j = 0 THEN 0
    ELSE IF a[i] # b[j] THEN 0
    ELSE Cell(a, b, i - 1, j - 1) + 1

Cells(a, b) == (1..Len(a)) \X (1..Len(b))

MaxCell(a, b) ==
    IF Cells(a, b) = {} THEN 0
    ELSE LET c == CHOOSE c \in Cells(a, b) :
                      \A d \in Cells(a, b) : Cell(a, b, d[1], d[2]) <= Cell(a, b, c[1], c[2])
         IN  Cell(a, b, c[1], c[2])

RowMajorBefore(d, c) == d[1] < c[1] \/ (d[1] = c[1] /\ d[2] < c[2])

\* the first cell, in row-major order, that holds the maximum
FirstMaxCell(a, b) ==
    CHOOSE c \in Cells(a, b) :
        /\ Cell(a, b, c[1], c[2]) = MaxCell(a, b)
        /\ \A d \in Cells(a, b) :
               RowMajorBefore(d, c) => Cell(a, b, d[1], d[2]) < MaxCell(a, b)

ShareNoSymbol(a, b) == \A i \in 1..Len(a), j \in 1..Len(b) : a[i] # b[j]

\* the triple of the first maximum cell, or none when the table is all zero
TripleOfTable(a, b, none) ==
    IF MaxCell(a, b) = 0 THEN none
    ELSE LET c == FirstMaxCell(a, b)
             m == MaxCell(a, b)
         IN  <<c[1] - m, c[2] - m, m>>

\* the call of name returned
MatchReturned(name) == pc = "done" /\ op = name /\ err = "none"

TripleAt(r, k) == <<r.a1idx[k], r.a2idx[k], r.len[k]>>

TripleAtGrid(r, i, j) == <<r.a1idx[i][j], r.a2idx[i][j], r.len[i][j]>>

AllNegative(temperature) ==
    \A k \in 1..16 : calculate_loop_energies(temperature, FALSE)[k] < 0

\* C3: at a temperature where all 16 table entries are negative, a pair
\* seqs1[i], seqs2[i] for which seqs1[i] and the Watson-Crick complement of
\* seqs2[i] share a substring of length 2 or more is reported by
\* strongest_common_substrings_all_pairs_string with a length of 2 or more and
\* a negative energy.
C3_StrongestReportsSharedSubstring ==
    (MatchReturned("strongest_common_substrings_all_pairs_string")
        /\ AllNegative(args.temperature)) =>
        \A i \in 1..Len(args.a1s) :
            MaxCell(args.a1s[i], wc_arr(<<args.a2s[i]>>)[1]) >= 2 =>
                ret.len[i] >= 2 /\ ret.energy[i] < 0

-----------------------------------------------------------------------------
(* The scalar energy of a string: _all_pairs, calculate_loop_energies_dict  *)
(* and wcenergy                                                             *)

\* _all_pairs: ((i << 2) + j, bits2base[i] + bits2base[j]) for i, j in range(4)
all_pairs ==
    [k \in 1..16 |->
        LET i == (k - 1) \div 4
            j == (k - 1) % 4
        IN  <<i * 4 + j, <<bits2base[i + 1], bits2base[j + 1]>> >>]

\* {pair[1]: loop_energies[pair[0]] for pair in _all_pairs}: the energy of a
\* two-character string
calculate_loop_energies_dict(temperature, negate) ==
    LET loop_energies == calculate_loop_energies(temperature, negate)
    IN  [key \in {all_pairs[k][2] : k \in 1..16} |->
            LET k == CHOOSE k \in 1..16 : all_pairs[k][2] = key
            IN  loop_energies[all_pairs[k][1] + 1]]

\* sum(loop_energies[seq[i:i + 2]] for i in range(len(seq) - 1))
wcenergy(seq_, temperature, negate) ==
    LET loop_energies == calculate_loop_energies_dict(temperature, negate)
    IN  SumSeq([i \in 1..(Len(seq_) - 1) |-> loop_energies[SubSeq(seq_, i, i + 1)]])

-----------------------------------------------------------------------------
(* Specification SpecEnergy: one call of an energy function on a matrix of  *)
(* MaxEnergyRows consecutive rows (cyclically) of all rows of one length in *)
(* 1..MaxEnergyLen.                                                         *)

EnergyMatrices ==
    UNION {{Window(make_array_with_all_dna_seqs(n, AllBases), start, MaxEnergyRows) :
                start \in 1..Pow(4, n)} : n \in 1..MaxEnergyLen}

InitEnergy ==
    /\ seqarr = NoArr /\ numseqs = 0 /\ seqlen = 0
    /\ arr_keep = <<>> /\ seq = <<>> /\ rng = "none"
    /\ CacheAtImport
    /\ pc = "call"
    /\ op = "none"
    /\ args \in [seqarr : EnergyMatrices]
    /\ ret = NoRet
    /\ err = "none"

\* a call of a function of the matrix that returns r
EnergyCall(name, a, r) ==
    /\ pc = "call"
    /\ pc' = "done"
    /\ Returned(name, a, r)
    /\ ObjUnchanged

CallCalculateWcEnergies ==
    \E temperature \in Temperatures, negate \in BOOLEAN :
        EnergyCall("calculate_wc_energies",
            [seqarr |-> args.seqarr, temperature |-> temperature, negate |-> negate],
            [energies |-> calculate_wc_energies(args.seqarr, temperature, negate)])

\* wcenergy on the string of row r of the matrix
CallWcenergy ==
    \E r \in 1..Len(args.seqarr), temperature \in Temperatures, negate \in BOOLEAN :
        EnergyCall("wcenergy",
            [seqarr |-> args.seqarr, seq |-> arr2seq(args.seqarr[r]),
             temperature |-> temperature, negate |-> negate],
            [energy |-> wcenergy(arr2seq(args.seqarr[r]), temperature, negate)])

CallWcArr ==
    EnergyCall("wc_arr", args, [arr |-> wc_arr(args.seqarr)])

NextEnergy ==
    \/ CallCalculateWcEnergies
    \/ CallWcenergy
    \/ CallWcArr

SpecEnergy == InitEnergy /\ [][NextEnergy]_vars

-----------------------------------------------------------------------------
(* Properties of the energy functions, under SpecEnergy *)

EnergyReturned(name) == pc = "done" /\ op = name /\ err = "none"

-----------------------------------------------------------------------------
(* More properties of the value filters, under SpecFilter *)

\* the outcome of the filter name with the arguments a on the set s (a
\* record with the fields seqarr, numseqs, seqlen): the exception it raises
\* and the rows it keeps
FilterResult(name, a, s) ==
    CASE name = "filter_energy" ->
            [err |-> "none",
             rows |-> filter_energy_rows(s.seqarr, a.low, a.high, a.temperature)]
      [] name = "filter_end_gc" ->
            [err |-> filter_end_gc_error(s.seqarr),
             rows |-> filter_end_gc_rows(s.seqarr)]
      [] name = "filter_end_at" ->
            [err |-> filter_end_at_error(s.seqarr, a.gc_near_end),
             rows |-> filter_end_at_rows(s.seqarr, a.gc_near_end)]
      [] name = "filter_base_nowhere" ->
            [err |-> "none", rows |-> filter_base_nowhere_rows(s.seqarr, a.base)]
      [] name = "filter_base_count" ->
            [err |-> "none",
             rows |-> filter_base_count_rows(s.seqarr, a.base, a.low, a.high)]
      [] name = "filter_base_at_pos" ->
            [err |-> filter_base_at_pos_error(s.seqarr, a.pos),
             rows |-> filter_base_at_pos_rows(s.seqarr, a.pos, a.base)]
      [] name = "filter_substring" ->
            [err |-> filter_substring_error(s.seqlen, a.subs),
             rows |-> filter_substring_rows(s.seqarr, s.numseqs, s.seqlen, a.subs)]

FilterReturned == pc = "done" /\ op \in ValueFilters /\ err = "none"

\* C12: applying a value-returning filter, with the same arguments, to the
\* set it returned yields a set with identical rows in identical order.
C12_FiltersIdempotent ==
    FilterReturned =>
        LET again == FilterResult(op, args, ret.set)
        IN  /\ again.err = "none"
            /\ again.rows = ret.set.seqarr.rows

\* a filter that removed some rows of a set that is not sorted and kept a
\* row and its repetition
C12_Witness ==
    /\ FilterReturned
    /\ op = "filter_base_at_pos"
    /\ numseqs = 5
    /\ ret.set.numseqs = 2
    /\ ret.set.seqarr.rows[1] = ret.set.seqarr.rows[2]
    /\ FilterResult(op, args, ret.set).rows = ret.set.seqarr.rows
\* the rows whose element at the 1-based column col is code, in order
RECURSIVE RowsWith(_, _, _)
RowsWith(rows, col, code) ==
    IF Len(rows) = 0 THEN <<>>
    ELSE IF rows[1][col] = code THEN <<rows[1]>> \o RowsWith(Tail(rows), col, code)
         ELSE RowsWith(Tail(rows), col, code)

BaseAtPosCalled == pc = "done" /\ op = "filter_base_at_pos"

\* C13: filter_base_at_pos(pos, base) with pos negative or pos >= seqlen
\* fails with a bounds error and returns no set.
C13_OutOfRangePosFails ==
    (BaseAtPosCalled /\ (args.pos < 0 \/ args.pos >= seqlen)) =>
        err = "IndexError" /\ ret = NoRet

\* C13 (amended): filter_base_at_pos(pos, base) fails with a bounds error and
\* returns no set exactly when pos >= seqlen or pos < -seqlen; for
\* 0 <= pos < seqlen it returns the rows with base at index pos, and for
\* -seqlen <= pos < 0 the rows with base at index seqlen + pos.
C13_PosOutsideBothRangesFails ==
    BaseAtPosCalled =>
        IF args.pos >= seqlen \/ args.pos < 0 - seqlen
        THEN err = "IndexError" /\ ret = NoRet
        ELSE /\ err = "none"
             /\ ret.set.seqarr.rows
                    = RowsWith(seqarr.rows,
                               IF args.pos >= 0 THEN args.pos + 1
                               ELSE seqlen + args.pos + 1,
                               base2bits[args.base])

\* the call with pos = -1 on the set of all rows of length 3 returned the 16
\* rows that end in the base
C13_Witness ==
    /\ BaseAtPosCalled
    /\ args.pos = -1
    /\ numseqs = 64
    /\ err = "none"
    /\ ret.set.numseqs = 16
    /\ \A r \in 1..16 : ret.set.seqarr.rows[r][3] = base2bits[args.base]
EndFilterCalled == pc = "done" /\ op \in {"filter_end_gc", "filter_end_at"}

\* C14: filter_end_gc and filter_end_at (gc_near_end False or True) on a set
\* whose seqlen is 1 or 2 return no set, each fails with an error.
C14_EndFiltersNeedThree ==
    (EndFilterCalled /\ seqlen \in {1, 2}) => (err # "none" /\ ret = NoRet)

\* the rows whose first and last elements are both codes of A or T, in order
RECURSIVE RowsEndingAT(_)
RowsEndingAT(rows) ==
    IF Len(rows) = 0 THEN <<>>
    ELSE IF rows[1][1] \in {0, 3} /\ rows[1][Len(rows[1])] \in {0, 3}
         THEN <<rows[1]>> \o RowsEndingAT(Tail(rows))
         ELSE RowsEndingAT(Tail(rows))

\* C14 (amended): filter_end_gc and filter_end_at with gc_near_end = True
\* fail with a bounds error on a set whose seqlen is 1 or 2 and return a set
\* when seqlen >= 3; filter_end_at with gc_near_end = False returns for every
\* seqlen >= 1 the rows whose first and last symbols are each A or T.
C14_OnlyNearEndTestsNeedThree ==
    EndFilterCalled =>
        IF op = "filter_end_at" /\ ~args.gc_near_end
        THEN /\ err = "none"
             /\ ret.set.seqarr.rows = RowsEndingAT(seqarr.rows)
        ELSE IF seqlen \in {1, 2}
             THEN err = "IndexError" /\ ret = NoRet
             ELSE err = "none" /\ ret.set.seqlen = seqlen

\* filter_end_at() on the set of all rows of length 2 returned the 4 rows
\* over A and T
C14_Witness ==
    /\ EndFilterCalled
    /\ op = "filter_end_at"
    /\ ~args.gc_near_end
    /\ seqlen = 2
    /\ numseqs = 16
    /\ err = "none"
    /\ ret.set.numseqs = 4

-----------------------------------------------------------------------------
(* The random source of a set and of the set a filter returns *)

\* C15: a set owns its random source: the set a filter returns and the
\* receiver of the filter, two distinct sets, never draw from the same
\* generator, whether the receiver was constructed with default arguments
\* or given a generator of its own.
C15_SetsOwnRandomSource ==
    (pc = "done" /\ err = "none") => ret.set.rng # rng

-----------------------------------------------------------------------------
(* The energy table of the energy-weighted matcher, under SpecMatch *)

\* the energy table by its recurrence: cell (i, j), 0 <= i <= Len(a),
\* 0 <= j <= Len(b), extends cell (i - 1, j - 1) when the last two symbols of
\* a[1..i] and of b[1..j] agree, and is 0 otherwise
RECURSIVE ECell(_, _, _, _, _)
ECell(a, b, table, i, j) ==
    IF i >= 2 /\ j >= 2 /\ a[i] = b[j] /\ a[i - 1] = b[j - 1]
    THEN ECell(a, b, table, i - 1, j - 1) + table[a[i - 1] * 4 + a[i] + 1]
    ELSE 0

ECells(a, b) == (0..Len(a)) \X (0..Len(b))

\* the first cell, in row-major order, that holds the maximum of the table
FirstMaxECell(a, b, table) ==
    CHOOSE c \in ECells(a, b) :
        \A d \in ECells(a, b) :
            /\ ECell(a, b, table, d[1], d[2]) <= ECell(a, b, table, c[1], c[2])
            /\ RowMajorBefore(d, c) =>
                   ECell(a, b, table, d[1], d[2]) < ECell(a, b, table, c[1], c[2])

StrongestReturned == MatchReturned("strongest_common_substrings_all_pairs_string")

-----------------------------------------------------------------------------
(* The test of filter_end_gc, under SpecFilter *)

\* row, with its symbols at indices 0..seqlen-1, has C or G at both ends, an
\* A or T at index 1 or 2 and an A or T at index seqlen-2 or seqlen-3
KeepEndGC(row) ==
    LET n == Len(row)
        at(i) == row[i + 1]
    IN  /\ at(0) \in {1, 2}
        /\ at(n - 1) \in {1, 2}
        /\ (at(1) \in {0, 3} \/ at(2) \in {0, 3})
        /\ (at(n - 2) \in {0, 3} \/ at(n - 3) \in {0, 3})

RECURSIVE RowsKeptEndGC(_)
RowsKeptEndGC(rows) ==
    IF Len(rows) = 0 THEN <<>>
    ELSE IF KeepEndGC(rows[1]) THEN <<rows[1]>> \o RowsKeptEndGC(Tail(rows))
         ELSE RowsKeptEndGC(Tail(rows))

\* C17: on a set with seqlen >= 3, filter_end_gc keeps a row if and only if
\* its first and last symbols are each C or G, a symbol at index 1 or 2 is A
\* or T and a symbol at index seqlen-2 or seqlen-3 is A or T; the kept rows
\* are in their original relative order.
C17_EndGCKeepsAntiFraying ==
    (pc = "done" /\ op = "filter_end_gc" /\ seqlen >= 3) =>
        /\ err = "none"
        /\ ret.set.seqarr.rows = RowsKeptEndGC(seqarr.rows)
        /\ ret.set.numseqs = Len(ret.set.seqarr.rows)

\* filter_end_gc on the six rows of length 6, whose four near-end indices are
\* distinct, returned GCATTC and CTGGAG
C17_Witness ==
    /\ pc = "done" /\ op = "filter_end_gc" /\ err = "none"
    /\ seqlen = 6
    /\ numseqs = 6
    /\ ret.set.seqarr.rows = << seq2arr(<<"G", "C", "A", "T", "T", "C">>),
                               seq2arr(<<"C", "T", "G", "G", "A", "G">>) >>

-----------------------------------------------------------------------------
(* What filter_hamming discards and retains, under Spec *)

InHamming == pc \in {"hamming_outer", "hamming_inner"}

\* the number of times row r occurs in rows
Count(rows, r) == Cardinality({k \in 1..Len(rows) : rows[k] = r})

SubMultiset(rows, of) ==
    \A k \in 1..Len(rows) : Count(rows, rows[k]) <= Count(of, rows[k])

IsPrefix(s, t) == Len(s) <= Len(t) /\ SubSeq(t, 1, Len(s)) = s

\* C18: filter_hamming discards a popped row only when its Hamming distance
\* to a retained row is below threshold, a retained row stays retained until
\* the call returns, and the rows the call leaves in the receiver are a
\* sub-multiset of the original rows that contains the row that was last
\* before the call.
C18_HammingDiscardsOnlyClose ==
    [][/\ (pc = "hamming_inner" /\ pc' = "hamming_inner") =>
              \E k \in 1..Len(arr_keep) :
                  HammingDistance(arr_keep[k], seq) < args.threshold
       /\ (InHamming /\ InHamming') => IsPrefix(arr_keep, arr_keep')
       /\ (InHamming /\ pc' = "idle") =>
              /\ seqarr'.rows = arr_keep
              /\ SubMultiset(arr_keep, args.self)
              /\ arr_keep[1] = Last(args.self)]_vars

\* a call with threshold 2 on three rows returned two of them: one row was
\* discarded
C18_Witness ==
    /\ HammingReturned
    /\ args.threshold = 2
    /\ Len(args.self) = 3
    /\ numseqs = 2
    /\ seqarr.rows[1] = Last(args.self)

-----------------------------------------------------------------------------
(* Termination of filter_hamming.  A call that has started takes its next   *)
(* step: the loops of filter_hamming run in one thread, without waiting.    *)

HammingStep ==
    \/ HammingOuterPop
    \/ HammingInnerPop
    \/ HammingKeep
    \/ HammingReturn

SpecHammingFair == Spec /\ WF_vars(HammingStep)

SameMultiset(s, t) == SubMultiset(s, t) /\ Len(s) = Len(t)

\* C19: filter_hamming on a non-empty set terminates for every threshold and
\* every shuffle outcome: the first pop and the shuffle leave the original
\* rows but the one popped, every later pop takes the last row of the working
\* set and shortens it by one, the call returns when the working set is
\* empty, and the receiver then holds between 1 and the original numseqs
\* rows.
C19_HammingTerminates ==
    /\ [][/\ (pc = "idle" /\ InHamming') =>
                 /\ Len(args'.self) = numseqs
                 /\ numseqs' = numseqs - 1
                 /\ SameMultiset(Append(seqarr'.rows, seq'), args'.self)
          /\ (InHamming /\ InHamming' /\ pc' # "hamming_outer") =>
                 /\ numseqs' = numseqs - 1
                 /\ seq' = Last(seqarr.rows)
                 /\ seqarr'.rows = SubSeq(seqarr.rows, 1, Len(seqarr.rows) - 1)
          /\ (InHamming /\ InHamming' /\ pc' = "hamming_outer") =>
                 UNCHANGED <<seqarr, numseqs>>
          /\ (InHamming /\ pc' = "idle") =>
                 /\ numseqs = 0 /\ seqarr.rows = <<>>
                 /\ numseqs' >= 1 /\ numseqs' <= Len(args.self)]_vars
    /\ InHamming ~> HammingReturned

\* a call with threshold 1 on three rows returned and retained all three
C19_Witness ==
    /\ HammingReturned
    /\ args.threshold = 1
    /\ Len(args.self) = 3
    /\ numseqs = 3

-----------------------------------------------------------------------------
(* Reverse-complement symmetry of the energies, under SpecEnergy *)

\* C20: the table of loop energies is symmetric under reverse complement, so
\* calculate_wc_energies(wc_arr(X), T) equals calculate_wc_energies(X, T) row
\* by row, with the table entries as exact values, and wc_arr(wc_arr(X)) = X.
C20_ReverseComplementSymmetry ==
    /\ EnergyReturned("calculate_wc_energies") =>
           LET table == calculate_loop_energies(args.temperature, args.negate)
           IN  /\ \A x, y \in Codes :
                      table[x * 4 + y + 1] = table[(3 - y) * 4 + (3 - x) + 1]
               /\ ret.energies
                      = calculate_wc_energies(wc_arr(args.seqarr),
                                              args.temperature, args.negate)
    /\ EnergyReturned("wc_arr") =>
           /\ wc_arr(ret.arr) = args.seqarr
           /\ \A r \in 1..Len(args.seqarr) :
                  \A c \in 1..Len(args.seqarr[r]) :
                      ret.arr[r][c] = 3 - args.seqarr[r][Len(args.seqarr[r]) + 1 - c]

\* a call on a matrix whose first row, of three symbols, is not its own
\* reverse complement and whose pairs are not those of its complement
C20_Witness ==
    /\ EnergyReturned("calculate_wc_energies")
    /\ ~args.negate
    /\ Len(args.seqarr[1]) = 3
    /\ args.seqarr[1][1] = 0 /\ args.seqarr[1][2] = 1
    /\ wc_arr(args.seqarr)[1] # args.seqarr[1]
    /\ ret.energies[1] < 0

-----------------------------------------------------------------------------
(* The cache of calculate_wc_energies: hash_ndarray and the globals         *)

\* the exponent k of a positive energy of n * 10^-6, 2^k <= n / 10^6 < 2^(k+1),
\* for n from 15625 up to 2^10 * 10^6 (10^6 = 15625 * 2^6)
Float32Exponent(n) ==
    CHOOSE k \in -6..9 : 15625 * Pow(2, k + 6) <= n /\ n < 15625 * Pow(2, k + 7)

\* the first bits binary digits of r / d, 0 <= r < d
RECURSIVE Float32Mantissa(_, _, _)
Float32Mantissa(r, d, bits) ==
    IF bits = 0 THEN 0
    ELSE LET b == IF 2 * r >= d THEN 1 ELSE 0
         IN  b * Pow(2, bits - 1) + Float32Mantissa(2 * r - b * d, d, bits - 1)

\* the four bytes of a float32 in memory, low byte first: sign, 8 bits of
\* exponent, 23 bits of mantissa (the mantissa of the exact value, cut off);
\* 0.0 is four zero bytes
float32_bytes(e) ==
    IF e = 0 THEN <<0, 0, 0, 0>>
    ELSE LET n == IF e < 0 THEN 0 - e ELSE e
             k == Float32Exponent(n)
             d == 15625 * Pow(2, k + 6)
             m == Float32Mantissa(n - d, d, 23)
             exponent == 127 + k
             sign == IF e < 0 THEN 1 ELSE 0
         IN  <<m % 256, (m \div 256) % 256,
               (exponent % 2) * 128 + (m \div 65536),
               sign * 128 + (exponent \div 2)>>

\* bytes(arr.data): one byte per code of a matrix of np.ubyte, row after row;
\* four bytes per entry of an array of np.float32
data_bytes(arr, dtype) ==
    IF dtype = "ubyte" THEN Flatten(arr)
    ELSE Flatten([i \in 1..Len(arr) |-> float32_bytes(arr[i])])

\* hash_ndarray: hash(bytes(arr.data)).  Equal bytes hash equally; unequal
\* bytes are taken to hash unequally (the hash has 64 bits), so a hash is
\* represented by the bytes it was taken of, and 0 is hash(b'')
hash_ndarray(arr, dtype) == data_bytes(arr, dtype)

\* calculate_wc_energies as it runs with the globals of the cache: what it
\* returns and what it leaves in the globals
calculate_wc_energies_cached(seqarr_, temperature, negate) ==
    IF /\ CACHE_WC
       /\ calculate_wc_energies_cache # <<>>
       /\ calculate_wc_energies_cache_hash = hash_ndarray(seqarr_, "ubyte")
    THEN [energies |-> calculate_wc_energies_cache[1],
          cache |-> calculate_wc_energies_cache,
          cache_hash |-> calculate_wc_energies_cache_hash]
    ELSE LET energies == calculate_wc_energies(seqarr_, temperature, negate)
         IN  IF CACHE_WC
             THEN [energies |-> energies,
                   cache |-> <<energies>>,
                   cache_hash |-> hash_ndarray(energies, "float32")]
             ELSE [energies |-> energies,
                   cache |-> calculate_wc_energies_cache,
                   cache_hash |-> calculate_wc_energies_cache_hash]

-----------------------------------------------------------------------------
(* Specification SpecCache: the module after import, CACHE_WC set and       *)
(* cleared by the caller, and calls of calculate_wc_energies one after the  *)
(* other on matrices of 1..MaxCacheRows rows of length 1..MaxCacheLen over  *)
(* the codes of A and C.                                                    *)

CacheMatrices ==
    UNION {SeqsOfLen(SeqsOfLen({0, 1}, l), n) :
               l \in 1..MaxCacheLen, n \in 1..MaxCacheRows}

CacheTemperatures == {3700}

InitCache ==
    /\ seqarr = NoArr /\ numseqs = 0 /\ seqlen = 0
    /\ arr_keep = <<>> /\ seq = <<>> /\ rng = "none"
    /\ CacheAtImport
    /\ pc = "call"
    /\ op = "none"
    /\ args = NoArgs
    /\ ret = NoRet
    /\ err = "none"

\* CACHE_WC = value
SetCacheWC ==
    /\ \E value \in BOOLEAN :
        /\ value # CACHE_WC
        /\ CACHE_WC' = value
        /\ Returned("CACHE_WC", [value |-> value], NoRet)
    /\ UNCHANGED <<seqarr, numseqs, seqlen, arr_keep, seq, rng, pc,
                   calculate_wc_energies_cache, calculate_wc_energies_cache_hash>>

CalculateWcEnergies ==
    /\ \E seqarr_ \in CacheMatrices, temperature \in CacheTemperatures,
          negate \in BOOLEAN :
        LET r == calculate_wc_energies_cached(seqarr_, temperature, negate)
        IN  /\ Returned("calculate_wc_energies",
                   [seqarr |-> seqarr_, temperature |-> temperature,
                    negate |-> negate],
                   [energies |-> r.energies])
            /\ calculate_wc_energies_cache' = r.cache
            /\ calculate_wc_energies_cache_hash' = r.cache_hash
    /\ pc' = "done"
    /\ UNCHANGED <<seqarr, numseqs, seqlen, arr_keep, seq, rng, CACHE_WC>>

NextCache ==
    \/ SetCacheWC
    \/ CalculateWcEnergies

SpecCache == InitCache /\ [][NextCache]_vars

-----------------------------------------------------------------------------
(* The cache, under SpecCache *)

\* C21: with CACHE_WC enabled every call of calculate_wc_energies returns the
\* energies of its own arguments, as it does with the toggle disabled: a
\* stored result is never returned for a call with another matrix,
\* temperature or negate flag.
C21_CacheReturnsOwnEnergies ==
    (op = "calculate_wc_energies" /\ CACHE_WC) =>
        ret.energies
            = calculate_wc_energies(args.seqarr, args.temperature, args.negate)

====
